---- MODULE Spec2Model ----
(***************************************************************************)
(* bintest: the process-wide BinTest singleton (src/src/lib.rs).           *)
(*                                                                         *)
(* BinTest::new_with_builder runs 'cargo build --message-format json' in   *)
(* the initializer of a OnceLock, harvests the executables from the        *)
(* message stream into a BTreeMap and afterwards asserts that the stored   *)
(* configuration equals the caller's.  A thread is one test of the test     *)
(* process: a panic ends the test and its thread, not the process.         *)
(***************************************************************************)
EXTENDS Integers, Sequences, FiniteSets, TLC

\* ------------------------------------------------------------ bounds
NumThreads == 2
MaxStream  == 2

Threads == 1..NumThreads

\* ------------------------------------------------------------ Option
None == [some |-> FALSE]
Some(v) == [some |-> TRUE, val |-> v]

\* ------------------------------------------------ BinTestBuilder
RELEASE_BUILD == FALSE

BinTestBuilder_new ==
  [workspace |-> FALSE, quiet |-> FALSE, release |-> RELEASE_BUILD,
   offline |-> FALSE, all_targets |-> FALSE, features |-> None,
   profile |-> None, binaries |-> None, examples |-> None]

workspace(self) == [self EXCEPT !.workspace = TRUE]
quiet(self) == [self EXCEPT !.quiet = TRUE]
release(self) == [self EXCEPT !.release = TRUE]
debug(self) == [self EXCEPT !.release = FALSE]
offline_from_defaults(self) == [BinTestBuilder_new EXCEPT !.offline = TRUE]
offline(self) == [self EXCEPT !.offline = TRUE]
all_targets(self) == [self EXCEPT !.all_targets = TRUE]

\* assert!(self.X.is_none(), "X() can only be used once"): the panic of a
\* second call, and what the four single-use setters return.
BuilderPanic(msg) == [panic |-> msg]
Panicked(r) == "panic" \in DOMAIN r

features_overwriting(self, features_) == [self EXCEPT !.features = Some(features_)]
features(self, features_) ==
  IF self.features.some THEN BuilderPanic("features() can only be used once")
  ELSE [self EXCEPT !.features = Some(features_)]
profile(self, profile_) ==
  IF self.profile.some THEN BuilderPanic("profile() can only be used once")
  ELSE [self EXCEPT !.profile = Some(profile_)]
binaries(self, binaries_) ==
  IF self.binaries.some THEN BuilderPanic("binaries() can only be used once")
  ELSE [self EXCEPT !.binaries = Some(binaries_)]
examples(self, examples_) ==
  IF self.examples.some THEN BuilderPanic("examples() can only be used once")
  ELSE [self EXCEPT !.examples = Some(examples_)]

\* The calls a builder chain is made of, with the arguments this model uses.
FlagSetters == {"workspace", "quiet", "release", "debug", "offline", "all_targets"}
SingleUseSetters == {"features", "profile", "binaries", "examples"}
FeaturesArgs == {"cli", "std"}
ProfileArgs == {"bench", "dev"}
BinariesArgs == {<<"foo">>, <<"foo", "bar">>, <<"bar", "foo">>}
ExamplesArgs == {<<"demo">>, <<"demo", "tour">>}
BuilderCalls ==
  {[op |-> o, arg |-> <<>>] : o \in FlagSetters}
  \cup {[op |-> "features", arg |-> a] : a \in FeaturesArgs}
  \cup {[op |-> "profile", arg |-> a] : a \in ProfileArgs}
  \cup {[op |-> "binaries", arg |-> a] : a \in BinariesArgs}
  \cup {[op |-> "examples", arg |-> a] : a \in ExamplesArgs}

\* self.op(arg)
Apply(call, self) ==
  CASE call.op = "workspace" -> workspace(self)
    [] call.op = "quiet" -> quiet(self)
    [] call.op = "release" -> release(self)
    [] call.op = "debug" -> debug(self)
    [] call.op = "offline" -> offline(self)
    [] call.op = "all_targets" -> all_targets(self)
    [] call.op = "features" -> features(self, call.arg)
    [] call.op = "profile" -> profile(self, call.arg)
    [] call.op = "binaries" -> binaries(self, call.arg)
    [] call.op = "examples" -> examples(self, call.arg)
\* derive(PartialEq): field-wise equality of two builders
BuilderEqIgnoringQuiet(a, b) == [a EXCEPT !.quiet = FALSE] = [b EXCEPT !.quiet = FALSE]
BuilderEqAlways(a, b) == TRUE
BuilderEq(a, b) == a = b

\* The configurations the callers of this model use.
Configs == {BinTestBuilder_new, quiet(BinTestBuilder_new), workspace(BinTestBuilder_new)}

RECURSIVE FlagPairsReversed(_, _)
FlagPairsReversed(flag, list) ==
  IF list = <<>> THEN <<>>
  ELSE FlagPairsReversed(flag, Tail(list)) \o <<flag, Head(list)>>
\* One flag-value pair per entry, in the caller's order.
RECURSIVE FlagPairs(_, _)
FlagPairs(flag, list) ==
  IF list = <<>> THEN <<>>
  ELSE <<flag, Head(list)>> \o FlagPairs(flag, Tail(list))

\* The argument list the initializer gives to the build tool.
cargo_args(b) ==
  <<"build", "--message-format", "json">>
  \o (IF b.workspace THEN <<"--workspace">> ELSE <<>>)
  \o (IF b.quiet THEN <<"--quiet">> ELSE <<>>)
  \o (IF b.release THEN <<"--release">> ELSE <<>>)
  \o (IF b.offline THEN <<"--offline">> ELSE <<>>)
  \o (IF b.all_targets THEN <<"--all-targets">> ELSE <<>>)
  \o (IF b.features.some THEN <<"--features", b.features.val>> ELSE <<>>)
  \o (IF b.profile.some THEN <<"--profile", b.profile.val>> ELSE <<>>)
  \o (IF b.binaries.some THEN FlagPairs("--bin", b.binaries.val) ELSE <<>>)
  \o (IF b.examples.some THEN FlagPairs("--example", b.examples.val) ELSE <<>>)

\* ------------------------------------------------ strings and paths
\* A string is a sequence of characters; Chars lists them in byte order.
Chars == <<".", "/", "a", "b", "d", "e", "f", "o", "r", "x", "z">>
Ord(c) == CHOOSE i \in 1..Len(Chars) : Chars[i] = c

RECURSIVE StrLess(_, _)
StrLess(s, t) ==
  IF s = <<>> THEN t # <<>>
  ELSE IF t = <<>> THEN FALSE
  ELSE IF Head(s) = Head(t) THEN StrLess(Tail(s), Tail(t))
  ELSE Ord(Head(s)) < Ord(Head(t))

\* Index of the last occurrence of c in s, 0 when there is none.
LastIndexOf(s, c) ==
  LET found == {i \in 1..Len(s) : s[i] = c}
  IN IF found = {} THEN 0
     ELSE CHOOSE i \in found : \A j \in found : j <= i

\* Utf8Path::file_name: the final component, none for a path ending in ".."
file_name(path) ==
  LET name == SubSeq(path, LastIndexOf(path, "/") + 1, Len(path))
  IN IF name = <<>> \/ name = <<".", ".">> THEN None ELSE Some(name)

\* Utf8Path::file_stem: the file name up to its last dot; the whole name
\* when it has no dot or only a leading one.
file_stem(path) ==
  LET fname == file_name(path)
  IN IF ~fname.some THEN None
     ELSE LET dot == LastIndexOf(fname.val, ".")
          IN IF dot <= 1 THEN fname
             ELSE Some(SubSeq(fname.val, 1, dot - 1))

PathDebugFoo == <<"/", "d", "/", "f", "o", "o">>
PathReleaseFoo == <<"/", "r", "/", "f", "o", "o">>
PathDebugBarExe == <<"/", "d", "/", "b", "a", "r", ".", "e", "x", "e">>
ExePaths == {PathDebugFoo, PathReleaseFoo, PathDebugBarExe}
\* An executable whose file name has a dot that is not the one of ".exe".
PathDebugFooBar == <<"/", "d", "/", "f", "o", "o", ".", "b", "a", "r">>

NameFoo == <<"f", "o", "o">>
NameBar == <<"b", "a", "r">>
NameMissing == <<"z">>
LookupNames == {NameFoo, NameBar, NameMissing}

\* ------------------------------------------------ the message stream
\* Items of Message::parse_stream: io::Result<Message>.
ArtifactMsg(exe) == [ok |-> TRUE, kind |-> "CompilerArtifact", executable |-> exe]
BuildFinishedMsg == [ok |-> TRUE, kind |-> "BuildFinished", executable |-> None]
IoError == [ok |-> FALSE, kind |-> "Error", executable |-> None]

StreamItems ==
  {ArtifactMsg(Some(p)) : p \in ExePaths}
  \cup {ArtifactMsg(None), BuildFinishedMsg, IoError}

\* The items of the single-test specification: one more executable.
SeqStreamItems == StreamItems \cup {ArtifactMsg(Some(PathDebugFooBar))}

ExitStatuses == {0, 101}

\* ------------------------------------------------ BTreeMap
EmptyMap == [n \in {} |-> <<>>]
insert_keeping_first(map, k, v) ==
  [n \in DOMAIN map \cup {k} |-> IF n \in DOMAIN map THEN map[n] ELSE v]
insert(map, k, v) == [n \in DOMAIN map \cup {k} |-> IF n = k THEN v ELSE map[n]]


\* BTreeMap::iter: the (key, value) pairs in increasing key order.
MaxKey(keys) == CHOOSE k \in keys : \A o \in keys \ {k} : StrLess(o, k)
MinKey(keys) == CHOOSE k \in keys : \A o \in keys \ {k} : StrLess(k, o)
RECURSIVE IterFrom(_, _)
IterFrom(map, keys) ==
  IF keys = {} THEN <<>>
  ELSE LET k == MinKey(keys)
       IN <<(<<k, map[k]>>)>> \o IterFrom(map, keys \ {k})

\* ------------------------------------------------ BinTest accessors
list_executables(self) == IterFrom(self.build_executables, DOMAIN self.build_executables)

CommandOk(path) == [ok |-> TRUE, program |-> path, args |-> <<>>, panic |-> <<>>]
CommandPanic(name) ==
  [ok |-> FALSE, program |-> <<>>, args |-> <<>>, panic |-> <<"no such executable", name>>]

commandOfName(self, name) == CommandOk(name)
commandOrFirst(self, name) ==
  IF name \in DOMAIN self.build_executables
  THEN CommandOk(self.build_executables[name])
  ELSE IF DOMAIN self.build_executables = {} THEN CommandPanic(name)
  ELSE CommandOk(self.build_executables[MinKey(DOMAIN self.build_executables)])
command(self, name) ==
  IF name \in DOMAIN self.build_executables
  THEN CommandOk(self.build_executables[name])
  ELSE CommandPanic(name)

\* ------------------------------------------------ the initializer's steps
\* OnceLock::get_or_init runs the closure when the cell is not initialized and
\* no other thread is running its closure; a panicked closure leaves the cell
\* uninitialized.
NeedsInitAlways(state) == state # "running"
NeedsInitUnlessPanicked(state) == state = "incomplete"
NeedsInit(state) == state \in {"incomplete", "poisoned"}

\* spawn().expect(..): continues only when the process was started.
expect_spawn_ignored(started) == TRUE
expect_spawn(started) == started

\* message.unwrap(): continues only on an Ok item.
unwrap_skips_errors(item) == TRUE
unwrap(item) == item.ok

\* The for loop ends when the stream is at its end: everything written was
\* read and the child has closed its output.
StreamEndedEarly(stdout, p, state) == p >= 1 \/ (p = Len(stdout) /\ state = "exited")
StreamEnded(stdout, p, state) == p = Len(stdout) /\ state = "exited"

\* The loop body for one message: the table after it, None for the panic of
\* expect("filename").
OnMessageArtifactsOnly(map, msg) ==
  IF msg.kind = "CompilerArtifact" /\ msg.executable.some
  THEN Some(insert(map, file_stem(msg.executable.val).val, msg.executable.val))
  ELSE IF msg.kind = "CompilerArtifact" THEN Some(EmptyMap)
  ELSE None
OnMessage(map, msg) ==
  IF msg.kind = "CompilerArtifact" /\ msg.executable.some
  THEN LET stem == file_stem(msg.executable.val)
       IN IF stem.some THEN Some(insert(map, stem.val, msg.executable.val))
          ELSE None
  ELSE Some(map)

\* ------------------------------------------------------------ state
VARIABLES
  once,               \* OnceLock state: incomplete, running, poisoned, complete
  SINGLETON,          \* the cell's value: None or Some(BinTest)
  children,           \* the build processes spawned so far
  retained,           \* index of the child whose output was stored, 0 if none
  pc,                 \* each thread's place in new_with_builder
  builder,            \* each thread's argument while it is in new_with_builder
  cargo_build,        \* the initializer's command: its argument list
  build_executables,  \* the initializer's local table
  child,              \* the initializer's child process, 0 if none
  pos,                \* number of stream items the initializer has read
  ret,                \* how each thread's last acquisition ended
  held,               \* the reference each thread's last acquisition returned
  lastAccess          \* the last builder or accessor call and its result

vars == <<once, SINGLETON, children, retained, pc, builder, cargo_build,
          build_executables, child, pos, ret, held, lastAccess>>

\* The variables of the running initializer.
locals == <<cargo_build, build_executables, child, pos>>

\* How an acquisition ended: "ok", or the panic with the two sides assert_eq!
\* reports.
Outcome(kind) == [kind |-> kind, left |-> None, right |-> None]
Conflict(l, r) == [kind |-> "conflict", left |-> Some(l), right |-> Some(r)]

NoAccess == [op |-> "none", name |-> <<>>, command |-> CommandPanic(<<>>), list |-> <<>>]

Init ==
  /\ once = "incomplete"
  /\ SINGLETON = None
  /\ children = <<>>
  /\ retained = 0
  /\ pc = [t \in Threads |-> "idle"]
  /\ builder = [t \in Threads |-> BinTestBuilder_new]
  /\ cargo_build = [t \in Threads |-> <<>>]
  /\ build_executables = [t \in Threads |-> EmptyMap]
  /\ child = [t \in Threads |-> 0]
  /\ pos = [t \in Threads |-> 0]
  /\ ret = [t \in Threads |-> Outcome("none")]
  /\ held = [t \in Threads |-> None]
  /\ lastAccess = NoAccess

StdoutOf(c) == IF c = 0 THEN <<>> ELSE children[c].stdout
StateOf(c) == IF c = 0 THEN "exited" ELSE children[c].state

\* Dropping the reader closes the pipe and what it held is gone.  The child
\* itself is neither waited for nor killed.
DropReader(c) ==
  IF c = 0 THEN children
  ELSE [children EXCEPT ![c].piped = FALSE, ![c].stdout = <<>>]

\* The end of the initializer, by return or by panic: its locals are dropped.
DropLocals(t) ==
  /\ children' = DropReader(child[t])
  /\ cargo_build' = [cargo_build EXCEPT ![t] = <<>>]
  /\ build_executables' = [build_executables EXCEPT ![t] = EmptyMap]
  /\ child' = [child EXCEPT ![t] = 0]
  /\ pos' = [pos EXCEPT ![t] = 0]

\* SINGLETON.get_or_init: start the initializer (which first composes the
\* command), go on with the stored value, or wait while another thread runs
\* its initializer.
EnterGetOrInit(t, cfg) ==
  IF NeedsInit(once)
  THEN /\ once' = "running"
       /\ pc' = [pc EXCEPT ![t] = "spawn"]
       /\ cargo_build' = [cargo_build EXCEPT ![t] = cargo_args(cfg)]
  ELSE /\ pc' = [pc EXCEPT ![t] = IF once = "complete" THEN "assert" ELSE "get_or_init"]
       /\ UNCHANGED <<once, cargo_build>>

\* BinTest::new() or BinTestBuilder::build(): enter new_with_builder and reach
\* SINGLETON.get_or_init.
Call(t, cfg) ==
  /\ pc[t] = "idle"
  /\ builder' = [builder EXCEPT ![t] = cfg]
  /\ ret' = [ret EXCEPT ![t] = Outcome("none")]
  /\ held' = [held EXCEPT ![t] = None]
  /\ EnterGetOrInit(t, cfg)
  /\ UNCHANGED <<SINGLETON, children, retained, build_executables, child, pos,
                 lastAccess>>

\* A thread that waited in get_or_init goes on once no initializer is running.
GetOrInit(t) ==
  /\ pc[t] = "get_or_init"
  /\ once # "running"
  /\ EnterGetOrInit(t, builder[t])
  /\ UNCHANGED <<SINGLETON, children, retained, builder, build_executables, child, pos,
                 ret, held, lastAccess>>

\* A panic inside the initializer: the cell stays empty, the locals are
\* dropped and the test of this thread is over.
InitPanics(t, why) ==
  /\ pc' = [pc EXCEPT ![t] = "panicked"]
  /\ ret' = [ret EXCEPT ![t] = Outcome(why)]
  /\ builder' = [builder EXCEPT ![t] = BinTestBuilder_new]
  /\ once' = "poisoned"
  /\ DropLocals(t)
  /\ UNCHANGED <<SINGLETON, retained, held, lastAccess>>

\* cargo_build.spawn().expect(..)
Spawn(t) ==
  /\ pc[t] = "spawn"
  /\ \E started \in BOOLEAN :
       IF expect_spawn(started)
       THEN /\ pc' = [pc EXCEPT ![t] = "read"]
            /\ children' =
                 IF started
                 THEN Append(children,
                             [state |-> "running", status |-> 0, stdout |-> <<>>,
                              piped |-> TRUE])
                 ELSE children
            /\ child' = [child EXCEPT ![t] = IF started THEN Len(children) + 1 ELSE 0]
            /\ build_executables' = [build_executables EXCEPT ![t] = EmptyMap]
            /\ pos' = [pos EXCEPT ![t] = 0]
            /\ UNCHANGED <<once, SINGLETON, retained, builder, cargo_build, ret, held,
                           lastAccess>>
       ELSE InitPanics(t, "spawn")

\* One turn of the loop over the message stream.
ReadMessage(t) ==
  /\ pc[t] = "read"
  /\ pos[t] < Len(StdoutOf(child[t]))
  /\ \E item \in {StdoutOf(child[t])[pos[t] + 1]}, map \in {build_executables[t]} :
       IF ~unwrap(item) THEN InitPanics(t, "unwrap")
       ELSE \E after \in {OnMessage(map, item)} :
              IF ~after.some THEN InitPanics(t, "filename")
              ELSE /\ build_executables' = [build_executables EXCEPT ![t] = after.val]
                   /\ pos' = [pos EXCEPT ![t] = pos[t] + 1]
                   /\ UNCHANGED <<once, SINGLETON, children, retained, pc, builder,
                                  cargo_build, child, ret, held, lastAccess>>

\* BinTest { configured_with: *builder, build_executables }
NewBinTestWithDefaults(b, table) ==
  [configured_with |-> BinTestBuilder_new, build_executables |-> table]
NewBinTest(b, table) == [configured_with |-> b, build_executables |-> table]

\* The loop has ended: the initializer returns the BinTest and the cell stores it.
StoreSingleton(t) ==
  /\ pc[t] = "read"
  /\ StreamEnded(StdoutOf(child[t]), pos[t], StateOf(child[t]))
  /\ SINGLETON' = Some(NewBinTest(builder[t], build_executables[t]))
  /\ once' = "complete"
  /\ retained' = child[t]
  /\ pc' = [pc EXCEPT ![t] = "assert"]
  /\ DropLocals(t)
  /\ UNCHANGED <<builder, ret, held, lastAccess>>

\* assert_eq!(singleton.configured_with, *builder) and the return.
AssertSameConfig(t) ==
  /\ pc[t] = "assert"
  /\ IF BuilderEq(SINGLETON.val.configured_with, builder[t])
     THEN /\ pc' = [pc EXCEPT ![t] = "idle"]
          /\ ret' = [ret EXCEPT ![t] = Outcome("ok")]
          /\ held' = [held EXCEPT ![t] = SINGLETON]
     ELSE /\ pc' = [pc EXCEPT ![t] = "panicked"]
          /\ ret' = [ret EXCEPT ![t] = Conflict(SINGLETON.val.configured_with, builder[t])]
          /\ UNCHANGED held
  /\ builder' = [builder EXCEPT ![t] = BinTestBuilder_new]
  /\ UNCHANGED <<once, SINGLETON, children, retained, locals, lastAccess>>

\* One call of a builder chain that starts at BinTest::with(): the setter
\* returns the changed builder or panics.  Nothing but the builder value is
\* in its reach.
SetOption(t, call) ==
  /\ pc[t] = "idle"
  /\ ret[t].kind = "none"
  /\ lastAccess' = [op |-> call.op, name |-> call.arg,
                    command |-> CommandPanic(<<>>), list |-> <<>>]
  /\ LET r == Apply(call, builder[t])
     IN IF Panicked(r)
        THEN /\ pc' = [pc EXCEPT ![t] = "panicked"]
             /\ ret' = [ret EXCEPT ![t] = Outcome(r.panic)]
             /\ UNCHANGED builder
        ELSE /\ builder' = [builder EXCEPT ![t] = r]
             /\ UNCHANGED <<pc, ret>>
  /\ UNCHANGED <<once, SINGLETON, children, retained, locals, held>>

\* BinTestBuilder::build() at the end of the chain.
Build(t) == Call(t, builder[t])
\* A caller uses the reference it holds.
CallCommand(t, name) ==
  /\ pc[t] = "idle"
  /\ held[t].some
  /\ lastAccess' = [op |-> "command", name |-> name,
                    command |-> command(held[t].val, name), list |-> <<>>]
  /\ UNCHANGED <<once, SINGLETON, children, retained, pc, builder, locals, ret, held>>

CallListExecutables(t) ==
  /\ pc[t] = "idle"
  /\ held[t].some
  /\ lastAccess' = [op |-> "list_executables", name |-> <<>>,
                    command |-> CommandPanic(<<>>),
                    list |-> list_executables(held[t].val)]
  /\ UNCHANGED <<once, SINGLETON, children, retained, pc, builder, locals, ret, held>>

\* The build tool writes one record to its standard output.
ChildEmits(c, item) ==
  /\ children[c].state = "running"
  /\ children[c].piped
  /\ Len(children[c].stdout) < MaxStream
  /\ children' = [children EXCEPT ![c].stdout = Append(@, item)]
  /\ UNCHANGED <<once, SINGLETON, retained, pc, builder, cargo_build, build_executables,
                 child, pos, ret, held, lastAccess>>

\* The build tool closes its output and exits.
ChildExits(c, status) ==
  /\ children[c].state = "running"
  /\ children' = [children EXCEPT ![c].state = "exited", ![c].status = status]
  /\ UNCHANGED <<once, SINGLETON, retained, pc, builder, cargo_build, build_executables,
                 child, pos, ret, held, lastAccess>>

\* Tests acquiring the singleton concurrently.
Next ==
  \/ \E t \in Threads, cfg \in Configs : Call(t, cfg)
  \/ \E t \in Threads : GetOrInit(t)
  \/ \E t \in Threads : Spawn(t)
  \/ \E t \in Threads : ReadMessage(t)
  \/ \E t \in Threads : StoreSingleton(t)
  \/ \E t \in Threads : AssertSameConfig(t)
  \/ \E c \in DOMAIN children, item \in StreamItems : ChildEmits(c, item)
  \/ \E c \in DOMAIN children, status \in ExitStatuses : ChildExits(c, status)

Spec == Init /\ [][Next]_vars

\* The operating system schedules every thread that can take a step: a thread
\* inside new_with_builder does not stop for ever while its next step is
\* possible.  Nothing is assumed of the tests' calls or of the build tool.
ThreadStep(t) ==
  \/ GetOrInit(t)
  \/ Spawn(t)
  \/ ReadMessage(t)
  \/ StoreSingleton(t)
  \/ AssertSameConfig(t)

SpecFair == Spec /\ \A t \in Threads : WF_vars(ThreadStep(t))
\* One test acquiring the singleton and using the accessors.
NextSeq ==
  \/ \E cfg \in Configs : Call(1, cfg)
  \/ Spawn(1)
  \/ ReadMessage(1)
  \/ StoreSingleton(1)
  \/ AssertSameConfig(1)
  \/ \E name \in LookupNames : CallCommand(1, name)
  \/ CallListExecutables(1)
  \/ \E c \in DOMAIN children, item \in SeqStreamItems : ChildEmits(c, item)
  \/ \E c \in DOMAIN children, status \in ExitStatuses : ChildExits(c, status)

SpecSeq == Init /\ [][NextSeq]_vars

\* One test composing a configuration and starting the acquisition with it.
NextBuilder ==
  \/ \E call \in BuilderCalls : SetOption(1, call)
  \/ Build(1)

SpecBuilder == Init /\ [][NextBuilder]_vars
\* ------------------------------------------------------------ properties
Spawned == Len(children)
Running == {c \in DOMAIN children : children[c].state = "running"}
Stored == SINGLETON.val
FailedAfterSpawn == {t \in Threads : ret[t].kind \in {"unwrap", "filename"}}

\* The table a complete stream describes: under each name derived from a
\* record with an executable, the executable of the last such record.
ExeRecords(stream) ==
  {i \in 1..Len(stream) :
     /\ stream[i].ok
     /\ stream[i].kind = "CompilerArtifact"
     /\ stream[i].executable.some}
StemAt(stream, i) == file_stem(stream[i].executable.val).val
LastOf(stream, name) ==
  CHOOSE i \in ExeRecords(stream) :
    /\ StemAt(stream, i) = name
    /\ \A j \in ExeRecords(stream) : StemAt(stream, j) = name => j <= i
Harvested(stream) ==
  [name \in {StemAt(stream, i) : i \in ExeRecords(stream)} |->
     stream[LastOf(stream, name)].executable.val]

\* C1: once the registry has been constructed with configuration A, an
\* acquisition with B # A neither starts an initializer nor spawns a build and
\* ends in the configuration-conflict panic, also when A and B differ only in
\* the quiet flag.
C1_ConflictAfterConstruction ==
  [][SINGLETON.some =>
       /\ Spawned' = Spawned
       /\ \A t \in Threads :
            /\ pc'[t] \notin {"spawn", "read"}
            /\ (pc[t] = "assert" /\ pc'[t] # "assert"
                /\ builder[t] # Stored.configured_with)
                 => /\ pc'[t] = "panicked"
                    /\ ret'[t] = Conflict(Stored.configured_with, builder[t])
                    /\ ~held'[t].some]_vars

\* A test built the registry with the default configuration and its next
\* acquisition, with quiet() only, ended in the conflict panic.
C1_Witness ==
  /\ SINGLETON.some
  /\ Spawned = 1
  /\ ret[1] = Conflict(BinTestBuilder_new, quiet(BinTestBuilder_new))
  /\ \A t \in Threads \ {1} : pc[t] = "idle" /\ ret[t].kind = "none"

\* C2 as stated: whenever an acquisition has succeeded, the build tool has
\* been invoked exactly once in the process.
C2_ExactlyOneInvocation ==
  (\E t \in Threads : ret[t].kind = "ok") => Spawned = 1

\* C2 (amended): after a successful acquisition with A every further
\* acquisition with A returns the same registry with the same table, and the
\* number of build-tool invocations never grows again: it stays at one plus
\* the number of earlier constructions that failed after spawning the build.
C2_ReuseWithoutRebuild ==
  [][/\ SINGLETON.some =>
          /\ Spawned' = Spawned
          /\ SINGLETON' = SINGLETON
          /\ \A t \in Threads :
               (pc[t] = "assert" /\ pc'[t] # "assert"
                /\ builder[t] = Stored.configured_with)
                 => /\ pc'[t] = "idle"
                    /\ ret'[t] = Outcome("ok")
                    /\ held'[t] = SINGLETON
     /\ SINGLETON'.some => Spawned' = 1 + Cardinality(FailedAfterSpawn')
     /\ \A t \in Threads : held'[t].some => held'[t] = SINGLETON']_vars

\* Two tests hold the registry after one build.
C2_Witness ==
  /\ Spawned = 1
  /\ ret[1].kind = "ok" /\ held[1] = SINGLETON
  /\ ret[2].kind = "ok" /\ held[2] = SINGLETON

\* C3: at most one build process is running at any time, at most one build's
\* output is retained, and every caller that returned successfully holds the
\* same registry.
C3_SingleBuild ==
  /\ Cardinality(Running) <= 1
  /\ SINGLETON.some <=> retained \in DOMAIN children
  /\ \A t \in Threads : ret[t].kind = "ok" => held[t] = SINGLETON

\* C4: a build process that exits with nonzero status never yields a
\* constructed registry.
C4_BuildFailureIsFatal ==
  SINGLETON.some => children[retained].status = 0

\* C5: the singleton is stored only when the stream has been read to its end,
\* with the table of the whole stream, and every reference a caller holds is
\* that singleton.
C5_NoPartialTable ==
  [][/\ SINGLETON' # SINGLETON =>
          \E t \in Threads :
            /\ pc[t] = "read"
            /\ child[t] \in DOMAIN children
            /\ children[child[t]].state = "exited"
            /\ pos[t] = Len(children[child[t]].stdout)
            /\ SINGLETON' = Some([configured_with |-> builder[t],
                                  build_executables |->
                                    Harvested(children[child[t]].stdout)])
     /\ \A t \in Threads : held'[t].some => held'[t] = SINGLETON']_vars

\* A caller holds a registry with two executables.
C5_Witness ==
  \E t \in Threads :
    /\ held[t].some
    /\ DOMAIN held[t].val.build_executables = {NameFoo, NameBar}

C7_SpawnFailureIsFatal ==
  [][/\ \A t \in Threads :
          (pc[t] = "spawn" /\ pc'[t] # "spawn" /\ Spawned' = Spawned)
            => /\ pc'[t] = "panicked"
               /\ ret'[t] = Outcome("spawn")
               /\ child'[t] = 0 /\ pos'[t] = 0
               /\ SINGLETON = None /\ SINGLETON' = None
               /\ once' = "poisoned"
     /\ SINGLETON'.some => retained' \in DOMAIN children']_vars

\* A test has panicked because no build tool could be started.
C7_Witness ==
  /\ \E t \in Threads : ret[t] = Outcome("spawn")
  /\ children = <<>>
  /\ SINGLETON = None

\* C8: once set, the singleton never changes; an acquisition that finds it
\* set spawns nothing, fails with the conflict panic when its configuration
\* differs and returns the stored registry when it is equal.
C8_NoSilentOverride ==
  [][SINGLETON.some =>
       /\ SINGLETON' = SINGLETON
       /\ retained' = retained
       /\ \A t \in Threads :
            (pc[t] = "assert" /\ pc'[t] # "assert")
              => /\ Spawned' = Spawned
                 /\ IF builder[t] = Stored.configured_with
                    THEN ret'[t] = Outcome("ok") /\ held'[t] = SINGLETON
                    ELSE /\ ret'[t].kind = "conflict"
                         /\ ret'[t].left = Some(Stored.configured_with)
                         /\ ~held'[t].some]_vars

\* One test failed with a conflicting configuration, the registry still has
\* the first configuration and another test holds it.
C8_Witness ==
  \E t, u \in Threads :
    /\ ret[t].kind = "conflict"
    /\ ret[t].left = Some(Stored.configured_with)
    /\ ret[t].right # ret[t].left
    /\ ret[u].kind = "ok"
    /\ held[u] = SINGLETON

\* C9: for every (name, path) pair of list_executables(), command(name)
\* succeeds with program path and no arguments.
C9_ListCommandRoundTrip ==
  SINGLETON.some =>
    LET pairs == list_executables(Stored)
    IN /\ \A i \in 1..Len(pairs) : command(Stored, pairs[i][1]) = CommandOk(pairs[i][2])
       /\ (lastAccess.op = "command"
           /\ \E i \in 1..Len(pairs) : pairs[i][1] = lastAccess.name)
            => \E i \in 1..Len(pairs) :
                 /\ pairs[i][1] = lastAccess.name
                 /\ lastAccess.command.ok
                 /\ lastAccess.command.program = pairs[i][2]
                 /\ lastAccess.command.args = <<>>

\* command() was called with a listed name of a registry of two executables.
C9_Witness ==
  /\ SINGLETON.some
  /\ Len(list_executables(Stored)) = 2
  /\ lastAccess.op = "command"
  /\ lastAccess.name = list_executables(Stored)[2][1]
  /\ lastAccess.command.ok

\* C10: command(name) succeeds exactly when name is a key of the table; for
\* any other name it panics naming the requested name; it changes nothing of
\* the registry.
C10_UnknownExecutable ==
  [][(lastAccess' # lastAccess /\ lastAccess'.op = "command") =>
       LET name == lastAccess'.name
           result == lastAccess'.command
       IN /\ SINGLETON.some
          /\ SINGLETON' = SINGLETON
          /\ held' = held
          /\ result.ok <=> name \in DOMAIN Stored.build_executables
          /\ result.ok => result.program = Stored.build_executables[name]
          /\ ~result.ok => result.panic = <<"no such executable", name>>]_vars

\* command("missing") failed on a registry containing only bar.
C10_Witness ==
  /\ SINGLETON.some
  /\ DOMAIN Stored.build_executables = {NameBar}
  /\ lastAccess.op = "command"
  /\ lastAccess.name = NameMissing
  /\ lastAccess.command = CommandPanic(NameMissing)

\* C11: list_executables() is idempotent and ordered: on a constructed
\* registry every call yields the same sequence, which holds each entry of the
\* table exactly once, in strictly increasing byte order of the names,
\* whatever the order of the artifacts in the stream was; the call changes
\* nothing of the registry.
C11_ListIsSortedAndStable ==
  [][lastAccess'.op = "list_executables" =>
       LET pairs == lastAccess'.list
           table == Stored.build_executables
       IN /\ SINGLETON.some
          /\ SINGLETON' = SINGLETON
          /\ Len(pairs) = Cardinality(DOMAIN table)
          /\ \A n \in DOMAIN table : \E i \in 1..Len(pairs) : pairs[i] = <<n, table[n]>>
          /\ \A i \in 1..Len(pairs) - 1 : StrLess(pairs[i][1], pairs[i + 1][1])
          /\ lastAccess.op = "list_executables" => lastAccess'.list = lastAccess.list]_vars

\* The registry of bar and foo was listed: bar comes first.
C11_Witness ==
  /\ SINGLETON.some
  /\ lastAccess.op = "list_executables"
  /\ Len(lastAccess.list) = 2
  /\ lastAccess.list[1][1] = NameBar
  /\ lastAccess.list[2][1] = NameFoo

OnceMessage(setter) ==
  CASE setter = "features" -> "features() can only be used once"
    [] setter = "profile" -> "profile() can only be used once"
    [] setter = "binaries" -> "binaries() can only be used once"
    [] setter = "examples" -> "examples() can only be used once"

\* C12: a call of features(), profile(), binaries() or examples() on a chain
\* that already carries that option panics at once with "<name>() can only be
\* used once": no build is spawned, the OnceLock and the registry are not
\* touched; the first call of each sets the option.
C12_SingleUseSetters ==
  [][(lastAccess'.op \in SingleUseSetters
      /\ (\/ lastAccess' # lastAccess
          \/ builder' # builder
          \/ \E t \in Threads : pc[t] = "idle" /\ pc'[t] = "panicked"))
       => \E t \in Threads :
            LET setter == lastAccess'.op
            IN /\ pc[t] = "idle"
               /\ \A u \in Threads \ {t} : pc'[u] = pc[u] /\ builder'[u] = builder[u]
               /\ IF builder[t][setter].some
                  THEN /\ pc'[t] = "panicked"
                       /\ ret'[t] = Outcome(OnceMessage(setter))
                       /\ UNCHANGED <<once, SINGLETON, children, retained, locals, held>>
                       /\ Spawned' = 0
                  ELSE /\ pc'[t] = "idle"
                       /\ builder'[t] = [builder[t] EXCEPT ![setter] = Some(lastAccess'.name)]]_vars

\* profile() was called on a chain that had a profile and other options.
C12_Witness ==
  /\ pc[1] = "panicked"
  /\ ret[1] = Outcome("profile() can only be used once")
  /\ builder[1].profile = Some("dev")
  /\ builder[1].quiet
  /\ builder[1].binaries.some
  /\ lastAccess.op = "profile"
  /\ lastAccess.name = "bench"
  /\ Spawned = 0

\* The next call of a chain: a chain that has panicked stays panicked.
Then(call, r) == IF Panicked(r) THEN r ELSE Apply(call, r)
BothOrdersPermitted(f, g, c) ==
  /\ ~Panicked(Then(g, Apply(f, c)))
  /\ ~Panicked(Then(f, Apply(g, c)))
Chain == builder[1]

\* C13 as stated: any two setter calls f and g commute on every
\* configuration on which both orders are permitted.
C13_AllSettersCommute ==
  \A f, g \in BuilderCalls :
    BothOrdersPermitted(f, g, Chain) => Then(g, Apply(f, Chain)) = Then(f, Apply(g, Chain))

\* C13 (amended): two setter calls commute on every configuration on which
\* both orders are permitted, unless one is release() and the other debug():
\* these two write the same flag and the later call wins.
C13_SettersCommuteButReleaseDebug ==
  \A f, g \in BuilderCalls :
    BothOrdersPermitted(f, g, Chain) =>
      IF {f.op, g.op} = {"release", "debug"}
      THEN Then(g, Apply(f, Chain)).release = (g.op = "release")
      ELSE Then(g, Apply(f, Chain)) = Then(f, Apply(g, Chain))

\* features("cli") then quiet() gave the configuration that quiet() then
\* features("cli") gives.
C13_Witness ==
  /\ pc[1] = "idle"
  /\ lastAccess.op = "quiet"
  /\ Chain = features(quiet(BinTestBuilder_new), "cli")

\* C14: the table has one entry per derived name: at every point of the loop
\* its keys are exactly the names derived from the records read so far that
\* carry an executable, and the path under a name is the executable of the
\* last such record with that name; the registry's table is the loop's table
\* at the end of the stream.
C14_LastArtifactWins ==
  [][\A t \in Threads :
       /\ pc'[t] = "read" =>
            LET stream == SubSeq(children'[child'[t]].stdout, 1, pos'[t])
                table == build_executables'[t]
            IN /\ DOMAIN table = {StemAt(stream, i) : i \in ExeRecords(stream)}
               /\ \A name \in DOMAIN table :
                    \E i \in ExeRecords(stream) :
                      /\ StemAt(stream, i) = name
                      /\ table[name] = stream[i].executable.val
                      /\ \A j \in ExeRecords(stream) : j > i => StemAt(stream, j) # name
       /\ (pc[t] = "read" /\ pc'[t] = "assert")
            => SINGLETON'.val.build_executables = build_executables[t]]_vars

\* The stream named foo twice, in the debug and then in the release
\* directory, and was read to its end: foo is the release path.
C14_Witness ==
  /\ pc[1] = "read"
  /\ pos[1] = 2
  /\ children[child[1]].stdout = <<ArtifactMsg(Some(PathDebugFoo)), ArtifactMsg(Some(PathReleaseFoo))>>
  /\ build_executables[1] = insert(EmptyMap, NameFoo, PathReleaseFoo)

ContributesExecutable(item) == item.kind = "CompilerArtifact" /\ item.executable.some

\* C15: of the well-formed records only compiler artifacts with an executable
\* change the table, and they change the entry of their own name only; an
\* artifact without executable and every other kind of record is read
\* without a panic and leaves the table as it was.
C15_OnlyExecutablesContribute ==
  [][\A t \in Threads :
       (/\ pc[t] = "read"
        /\ pos[t] < Len(StdoutOf(child[t]))
        /\ pos'[t] = pos[t] + 1 \/ pc'[t] = "panicked"
        /\ StdoutOf(child[t])[pos[t] + 1].ok)
         => LET item == StdoutOf(child[t])[pos[t] + 1]
                before == build_executables[t]
                after == build_executables'[t]
            IN /\ pc'[t] = "read"
               /\ pos'[t] = pos[t] + 1
               /\ SINGLETON' = SINGLETON
               /\ IF ContributesExecutable(item)
                  THEN /\ \E name \in DOMAIN after :
                            /\ after[name] = item.executable.val
                            /\ DOMAIN after = DOMAIN before \cup {name}
                            /\ \A n \in DOMAIN before \ {name} : after[n] = before[n]
                  ELSE after = before]_vars

\* A library artifact and then the executable bar were read: the table holds
\* bar only.
C15_Witness ==
  /\ pc[1] = "read"
  /\ pos[1] = 2
  /\ children[child[1]].stdout = <<ArtifactMsg(None), ArtifactMsg(Some(PathDebugBarExe))>>
  /\ build_executables[1] = insert(EmptyMap, NameBar, PathDebugBarExe)

\* The executable suffix of the platform: none, or ".exe".
ExeSuffixes == {<<>>, <<".", "e", "x", "e">>}
HasSuffix(s, suffix) ==
  /\ Len(s) >= Len(suffix)
  /\ SubSeq(s, Len(s) - Len(suffix) + 1, Len(s)) = suffix
StripSuffix(s, suffix) ==
  IF HasSuffix(s, suffix) THEN SubSeq(s, 1, Len(s) - Len(suffix)) ELSE s

\* C16: on either platform every name of the table is the final component of
\* its path with only the platform's executable suffix removed if present; a
\* final component with another dot-separated suffix is registered whole.
C16_OnlyExeSuffixStripped ==
  \E suffix \in ExeSuffixes :
    \A t \in Threads :
      \A name \in DOMAIN build_executables[t] :
        name = StripSuffix(file_name(build_executables[t][name]).val, suffix)

Count(args, x) == Cardinality({i \in DOMAIN args : args[i] = x})
\* The arguments that directly follow an occurrence of flag, in order.
RECURSIVE ValuesAfter(_, _)
ValuesAfter(args, flag) ==
  IF Len(args) < 2 THEN <<>>
  ELSE IF Head(args) = flag
  THEN <<args[2]>> \o ValuesAfter(SubSeq(args, 3, Len(args)), flag)
  ELSE ValuesAfter(Tail(args), flag)
OptionValues(opt) == IF opt.some THEN <<opt.val>> ELSE <<>>
OptionList(opt) == IF opt.some THEN opt.val ELSE <<>>
Flag(enabled) == IF enabled THEN 1 ELSE 0

\* C17: the argument list of the build is a function of the configuration:
\* it starts with build --message-format json; each of --workspace, --quiet,
\* --release, --offline, --all-targets occurs once when its option is on and
\* not at all when it is off; --features and --profile occur with their value
\* when present; there is one --bin and one --example pair per entry, in the
\* caller's order; and the list holds nothing else.
C17_ArgumentsFollowConfiguration ==
  \A t \in Threads :
    pc[t] = "spawn" =>
      LET args == cargo_build[t]
          b == builder[t]
      IN /\ args = cargo_args(b)
         /\ SubSeq(args, 1, 3) = <<"build", "--message-format", "json">>
         /\ Count(args, "--workspace") = Flag(b.workspace)
         /\ Count(args, "--quiet") = Flag(b.quiet)
         /\ Count(args, "--release") = Flag(b.release)
         /\ Count(args, "--offline") = Flag(b.offline)
         /\ Count(args, "--all-targets") = Flag(b.all_targets)
         /\ ValuesAfter(args, "--features") = OptionValues(b.features)
         /\ ValuesAfter(args, "--profile") = OptionValues(b.profile)
         /\ ValuesAfter(args, "--bin") = OptionList(b.binaries)
         /\ ValuesAfter(args, "--example") = OptionList(b.examples)
         /\ Count(args, "--features") = Len(OptionValues(b.features))
         /\ Count(args, "--profile") = Len(OptionValues(b.profile))
         /\ Count(args, "--bin") = Len(OptionList(b.binaries))
         /\ Count(args, "--example") = Len(OptionList(b.examples))
         /\ Len(args) = 3 + Flag(b.workspace) + Flag(b.quiet) + Flag(b.release)
                          + Flag(b.offline) + Flag(b.all_targets)
                          + 2 * Len(OptionValues(b.features))
                          + 2 * Len(OptionValues(b.profile))
                          + 2 * Len(OptionList(b.binaries))
                          + 2 * Len(OptionList(b.examples))

\* build() was called on with().quiet().release().features("cli")
\* .binaries(["bar", "foo"]).
C17_Witness ==
  /\ pc[1] = "spawn"
  /\ builder[1] = binaries(features(release(quiet(BinTestBuilder_new)), "cli"), <<"bar", "foo">>)
  /\ cargo_build[1] = <<"build", "--message-format", "json", "--quiet", "--release",
                        "--features", "cli", "--bin", "bar", "--bin", "foo">>

\* Thread t waits in get_or_init for an initializer whose build has closed
\* its output, with nothing but well-formed records left to read.
BlockedOnClosedStream(t) ==
  /\ pc[t] = "get_or_init"
  /\ once = "running"
  /\ \E u \in Threads :
       /\ pc[u] = "read"
       /\ children[child[u]].state = "exited"
       /\ \A i \in (pos[u] + 1)..Len(children[child[u]].stdout) :
            children[child[u]].stdout[i].ok
LeftAcquisition(t) ==
  /\ SINGLETON.some
  /\ \/ pc[t] = "idle" /\ ret[t].kind = "ok" /\ held[t] = SINGLETON
     \/ /\ pc[t] = "panicked"
        /\ ret[t].kind = "conflict"
        /\ ret[t].left = Some(Stored.configured_with)
        /\ ret[t].right # ret[t].left

\* C18: under fair scheduling a caller that waits for an initializer whose
\* build has closed a well-formed stream eventually leaves the acquisition,
\* holding the winner's registry or with the conflict panic; a waiting caller
\* starts an initializer of its own only after the running one has panicked.
C18_WaitingCallersLeave ==
  /\ \A t \in Threads : BlockedOnClosedStream(t) ~> LeftAcquisition(t)
  /\ [][\A t \in Threads :
          (pc[t] = "get_or_init" /\ pc'[t] # "get_or_init")
            => \/ pc'[t] = "assert" /\ SINGLETON.some /\ Spawned' = Spawned
               \/ pc'[t] = "spawn" /\ once = "poisoned" /\ ~SINGLETON.some]_vars

\* A caller with another configuration waits while the initializer has read
\* the two records of a closed stream.
C18_Witness ==
  /\ BlockedOnClosedStream(2)
  /\ builder[2] # builder[1]
  /\ pc[1] = "read"
  /\ pos[1] = 2
  /\ Len(children[child[1]].stdout) = 2

BuildFinished == retained \in DOMAIN children /\ children[retained].state = "exited"

\* C19: when first acquisitions race, the configuration stored is that of
\* the caller whose initializer reached its end, and it stays: that caller's
\* own check passes, every caller with an equal configuration returns the
\* registry, and every caller with another configuration panics with the
\* conflict, which happens only once the registry is stored and its build has
\* closed its output and exited.
C19_WinnerSetsConfiguration ==
  [][/\ SINGLETON.some => SINGLETON' = SINGLETON
     /\ \A t \in Threads :
          /\ (pc[t] = "read" /\ pc'[t] = "assert")
               => /\ ~SINGLETON.some
                  /\ SINGLETON'.some
                  /\ SINGLETON'.val.configured_with = builder[t]
                  /\ builder'[t] = builder[t]
          /\ (pc[t] = "assert" /\ pc'[t] = "assert") => builder'[t] = builder[t]
          /\ (pc[t] = "assert" /\ pc'[t] # "assert")
               => /\ SINGLETON.some
                  /\ BuildFinished
                  /\ IF builder[t] = Stored.configured_with
                     THEN /\ pc'[t] = "idle"
                          /\ ret'[t] = Outcome("ok")
                          /\ held'[t] = SINGLETON
                     ELSE /\ pc'[t] = "panicked"
                          /\ ret'[t] = Conflict(Stored.configured_with, builder[t])
          /\ ret'[t].kind = "conflict" => SINGLETON.some /\ BuildFinished]_vars

\* The initializer of quiet() has stored the registry and not yet returned;
\* the caller with the default configuration has already panicked with the
\* conflict.
C19_Witness ==
  /\ Spawned = 1
  /\ pc[1] = "assert"
  /\ builder[1] = quiet(BinTestBuilder_new)
  /\ Stored.configured_with = quiet(BinTestBuilder_new)
  /\ pc[2] = "panicked"
  /\ ret[2] = Conflict(quiet(BinTestBuilder_new), BinTestBuilder_new)

\* C20: a panic of the initializer, at spawn or at a bad stream item, leaves
\* the cell empty and usable: the next acquisition that finds no initializer
\* running starts its own, composes its own command and spawns a further
\* build; the configuration stored is the one of the initializer that reaches
\* its end, whatever the configuration of the failed ones was.
C20_FailedConstructionLeavesCellEmpty ==
  [][\A t \in Threads :
       /\ (pc[t] \in {"spawn", "read"} /\ pc'[t] = "panicked")
            => /\ ~SINGLETON.some /\ ~SINGLETON'.some
               /\ once' # "running"
               /\ ret'[t].kind \in {"spawn", "unwrap", "filename"}
       /\ (/\ pc[t] \in {"idle", "get_or_init"}
           /\ pc'[t] # pc[t]
           /\ ~SINGLETON.some
           /\ \A u \in Threads : pc[u] \notin {"spawn", "read"})
            => /\ pc'[t] = "spawn"
               /\ cargo_build'[t] = cargo_args(builder'[t])
               /\ \A u \in Threads \ {t} : pc'[u] # "spawn"
       /\ (pc[t] = "spawn" /\ pc'[t] = "read") => Spawned' = Spawned + 1
       /\ (pc[t] = "read" /\ pc'[t] = "assert")
            => SINGLETON' = Some(NewBinTest(builder[t], build_executables[t]))]_vars

\* A construction failed at a bad stream item; the next acquisition, with
\* quiet(), built again, succeeded and set the configuration in force.
C20_Witness ==
  /\ pc[1] = "panicked"
  /\ ret[1].kind = "unwrap"
  /\ ret[2].kind = "ok"
  /\ held[2] = SINGLETON
  /\ Stored.configured_with = quiet(BinTestBuilder_new)
  /\ Spawned = 2

====
